---- MODULE Spec2Model ----
(***************************************************************************)
(* Model of buildings3d.py: the OSM-footprint-to-3D-scene pipeline         *)
(* (fetch_buildings_gdf, build_glb_from_osm) and its attribute classifier  *)
(* (_footprint_height, _footprint_color); and of the monthly climate       *)
(* functions leer_csv and alturas_conceptuales of bioclima_model.py,       *)
(* appModel.py and appMapsSearch.py.                                       *)
(*                                                                         *)
(* Text is a sequence of one-character strings, so that str.replace,       *)
(* str.strip, str.lower and float() are computed character by character.   *)
(* Floats are counted in hundredths (12.8 is 1280); not-a-number and the   *)
(* infinities are values of their own.                                     *)
(***************************************************************************)
EXTENDS Integers, Sequences, FiniteSets, TLC

VARIABLES
    attrs,      \* classifier run: the attribute mapping handed to the classifier
    cpc,        \* classifier run: "in", "height", "done"
    height_m,   \* classifier run: what _footprint_height returned
    color,      \* classifier run: what _footprint_color returned
    cfg,        \* pipeline run: the OSM3DConfig handed to build_glb_from_osm
    pc,         \* pipeline run: "start", "fetched", "loop", "done"
    bbox,       \* the region the footprint source was asked for
    fetchCalls, \* calls of ox.features_from_bbox so far
    source,     \* what the footprint source answered to the last call
    gdf,        \* what fetch_buildings_gdf returned: [crs, rows]
    row,        \* index in gdf.rows of the row the loop handles next
    scene,      \* the meshes of the trimesh.Scene, in the order added
    count,      \* the running count of build_glb_from_osm
    swallowed,  \* exceptions caught by the loop's except clause so far
    attempts,   \* one entry per polygon the loop handed to _polygon_to_trimesh
    err,        \* the exception build_glb_from_osm raised, or NoError
    exported,   \* the meshes scene.export wrote, or NotExported
    ret,        \* the path build_glb_from_osm returned, or NoPath
    module,     \* climate run: the file whose alturas_conceptuales is called
    bpc,        \* climate run: "csv", "clima", "done"
    csv,        \* climate run: the file handed to leer_csv, or NoFile
    clima,      \* climate run: the series, or the exception leer_csv raised
    alturas     \* climate run: what alturas_conceptuales returned

cvars == <<attrs, cpc, height_m, color>>
pvars ==
    <<cfg, pc, bbox, fetchCalls, source, gdf, row, scene, count, swallowed,
      attempts, err, exported, ret>>
bvars == <<module, bpc, csv, clima, alturas>>
vars == <<cvars, pvars, bvars>>

----------------------------------------------------------------------------
(* Python values *)

PyNone == [t |-> "None", s |-> <<>>, v |-> 0]
PyStr(s) == [t |-> "str", s |-> s, v |-> 0]
\* a finite float, in hundredths
PyNum(v) == [t |-> "float", s |-> <<>>, v |-> v]
\* float('nan'): what a tabular row holds for a tag its footprint lacks
PyNaN == [t |-> "nan", s |-> <<>>, v |-> 0]
\* float('inf') (v = 1) and float('-inf') (v = -1)
PyInf(sign) == [t |-> "inf", s |-> <<>>, v |-> sign]
\* the exception float() raises on text that is no number
ValueError == [t |-> "ValueError", s |-> <<>>, v |-> 0]

\* a > b on floats; every comparison with nan is false
Gt(a, b) ==
    IF a.t = "nan" \/ b.t = "nan" THEN FALSE
    ELSE IF a.t = "inf" THEN a.v = 1 /\ ~(b.t = "inf" /\ b.v = 1)
    ELSE IF b.t = "inf" THEN b.v = -1
    ELSE a.v > b.v

\* max(a, b): the first argument stays unless the second is greater
py_max(a, b) == IF Gt(b, a) THEN b ELSE a

\* a * k for a float a and a finite positive k (hundredths)
py_mul(a, k) ==
    IF a.t = "float" THEN PyNum((a.v * k) \div 100) ELSE a

----------------------------------------------------------------------------
(* Text *)

Digit == {"0", "1", "2", "3", "4", "5", "6", "7", "8", "9"}

DigitVal(c) ==
    CASE c = "0" -> 0 [] c = "1" -> 1 [] c = "2" -> 2 [] c = "3" -> 3
      [] c = "4" -> 4 [] c = "5" -> 5 [] c = "6" -> 6 [] c = "7" -> 7
      [] c = "8" -> 8 [] c = "9" -> 9

DigitChar(n) == <<"0", "1", "2", "3", "4", "5", "6", "7", "8", "9">>[n + 1]

LowerChar(c) ==
    CASE c = "A" -> "a" [] c = "B" -> "b" [] c = "C" -> "c" [] c = "D" -> "d"
      [] c = "E" -> "e" [] c = "F" -> "f" [] c = "G" -> "g" [] c = "H" -> "h"
      [] c = "I" -> "i" [] c = "J" -> "j" [] c = "K" -> "k" [] c = "L" -> "l"
      [] c = "M" -> "m" [] c = "N" -> "n" [] c = "O" -> "o" [] c = "P" -> "p"
      [] c = "Q" -> "q" [] c = "R" -> "r" [] c = "S" -> "s" [] c = "T" -> "t"
      [] c = "U" -> "u" [] c = "V" -> "v" [] c = "W" -> "w" [] c = "X" -> "x"
      [] c = "Y" -> "y" [] c = "Z" -> "z" [] OTHER -> c

\* str.lower()
lower(s) == [i \in 1..Len(s) |-> LowerChar(s[i])]

\* str.replace(old, "") for a one-character old: every occurrence goes
replace(s, old) == SelectSeq(s, LAMBDA c : c # old)

RECURSIVE lstrip(_)
lstrip(s) == IF s # <<>> /\ Head(s) = " " THEN lstrip(Tail(s)) ELSE s

RECURSIVE rstrip(_)
rstrip(s) ==
    IF s # <<>> /\ s[Len(s)] = " " THEN rstrip(SubSeq(s, 1, Len(s) - 1)) ELSE s

\* str.strip()
strip(s) == rstrip(lstrip(s))

AllDigits(s) == \A i \in 1..Len(s) : s[i] \in Digit

RECURSIVE DecVal(_)
DecVal(s) ==
    IF s = <<>> THEN 0
    ELSE DecVal(SubSeq(s, 1, Len(s) - 1)) * 10 + DigitVal(s[Len(s)])

\* the first two decimals, in hundredths
FracVal(s) ==
    (IF Len(s) >= 1 THEN 10 * DigitVal(s[1]) ELSE 0)
    + (IF Len(s) >= 2 THEN DigitVal(s[2]) ELSE 0)

RECURSIVE DecText(_)
DecText(n) ==
    IF n < 10 THEN <<DigitChar(n)>>
    ELSE Append(DecText(n \div 10), DigitChar(n % 10))

\* float(text): surrounding blanks ignored, an optional sign, then "nan",
\* "inf"/"infinity" in any case, or digits with an optional decimal point.
\* (Exponents and digit-group underscores are not in the model's texts.)
float_text(s) ==
    LET u == strip(s)
        signed == u # <<>> /\ Head(u) \in {"+", "-"}
        sign == IF u # <<>> /\ Head(u) = "-" THEN -1 ELSE 1
        body == IF signed THEN Tail(u) ELSE u
        dots == {i \in 1..Len(body) : body[i] = "."}
        dot == IF dots = {} THEN Len(body) + 1
               ELSE CHOOSE i \in dots : \A j \in dots : i <= j
        ip == SubSeq(body, 1, dot - 1)
        fp == SubSeq(body, dot + 1, Len(body))
    IN  IF lower(body) = <<"n", "a", "n">> THEN PyNaN
        ELSE IF lower(body) \in {<<"i", "n", "f">>,
                                 <<"i", "n", "f", "i", "n", "i", "t", "y">>}
             THEN PyInf(sign)
        ELSE IF AllDigits(ip) /\ AllDigits(fp) /\ Len(ip) + Len(fp) > 0
             THEN PyNum(sign * (100 * DecVal(ip) + FracVal(fp)))
        ELSE ValueError

\* str(x)
py_str(x) ==
    CASE x.t = "str" -> x.s
      [] x.t = "None" -> <<"N", "o", "n", "e">>
      [] x.t = "nan" -> <<"n", "a", "n">>
      [] x.t = "inf" -> IF x.v = 1 THEN <<"i", "n", "f">>
                        ELSE <<"-", "i", "n", "f">>
      [] x.t = "float" ->
            LET a == IF x.v < 0 THEN -x.v ELSE x.v
                f == a % 100
            IN  (IF x.v < 0 THEN <<"-">> ELSE <<>>)
                \o DecText(a \div 100) \o <<".">>
                \o (IF f % 10 = 0 THEN <<DigitChar(f \div 10)>>
                    ELSE <<DigitChar(f \div 10), DigitChar(f % 10)>>)

\* float(x) for a value of an attribute mapping
py_float(x) ==
    IF x.t = "str" THEN float_text(x.s) ELSE x

----------------------------------------------------------------------------
(* Attribute classifier *)

DEFAULT_LEVEL_HEIGHT_M == 320
MIN_HEIGHT_M == 300

\* the values both lookups of _footprint_height pass over: None, "", "NaN"
SkippedValues == {PyNone, PyStr(<<>>), PyStr(<<"N", "a", "N">>)}

\* first loop of _footprint_height: the first key, in order, that is present,
\* not passed over, and whose text without any "m" is a float; None if none
RECURSIVE ScanHeight(_, _)
ScanHeight(a, keys) ==
    IF keys = <<>> THEN PyNone
    ELSE LET key == Head(keys)
         IN  IF key \in DOMAIN a /\ a[key] \notin SkippedValues
             THEN LET h == float_text(strip(replace(py_str(a[key]), "m")))
                  IN  IF h = ValueError THEN ScanHeight(a, Tail(keys)) ELSE h
             ELSE ScanHeight(a, Tail(keys))

\* second loop of _footprint_height
RECURSIVE ScanLevels(_, _)
ScanLevels(a, keys) ==
    IF keys = <<>> THEN PyNone
    ELSE LET key == Head(keys)
         IN  IF key \in DOMAIN a /\ a[key] \notin SkippedValues
             THEN LET l == py_float(a[key])
                  IN  IF l = ValueError THEN ScanLevels(a, Tail(keys)) ELSE l
             ELSE ScanLevels(a, Tail(keys))

_footprint_height(a) ==
    LET h == ScanHeight(a, <<"height", "building:height">>)
    IN  IF h = PyNone
        THEN LET levels == ScanLevels(a, <<"building:levels", "levels">>)
             IN  IF levels # PyNone
                 THEN py_max(py_mul(levels, DEFAULT_LEVEL_HEIGHT_M),
                             PyNum(MIN_HEIGHT_M))
                 ELSE PyNum(MIN_HEIGHT_M)
        ELSE h

W_residential == <<"r","e","s","i","d","e","n","t","i","a","l">>
W_commercial == <<"c","o","m","m","e","r","c","i","a","l">>
W_industrial == <<"i","n","d","u","s","t","r","i","a","l">>
W_retail == <<"r","e","t","a","i","l">>
W_office == <<"o","f","f","i","c","e">>
W_education == <<"e","d","u","c","a","t","i","o","n">>
W_hospital == <<"h","o","s","p","i","t","a","l">>
W_public == <<"p","u","b","l","i","c">>
W_default == <<"d","e","f","a","u","l","t">>
W_apartments == <<"a","p","a","r","t","m","e","n","t","s">>
W_house == <<"h","o","u","s","e">>
W_shop == <<"s","h","o","p">>
W_mall == <<"m","a","l","l">>
W_hotel == <<"h","o","t","e","l">>
W_warehouse == <<"w","a","r","e","h","o","u","s","e">>
W_school == <<"s","c","h","o","o","l">>
W_university == <<"u","n","i","v","e","r","s","i","t","y">>
W_college == <<"c","o","l","l","e","g","e">>
W_clinic == <<"c","l","i","n","i","c">>

ColorNames ==
    {W_residential, W_commercial, W_industrial, W_retail, W_office,
     W_education, W_hospital, W_public, W_default}

COLOR_MAP(name) ==
    CASE name = W_residential -> <<80, 160, 255, 255>>
      [] name = W_commercial -> <<255, 160, 60, 255>>
      [] name = W_industrial -> <<180, 180, 180, 255>>
      [] name = W_retail -> <<255, 120, 120, 255>>
      [] name = W_office -> <<255, 210, 80, 255>>
      [] name = W_education -> <<160, 120, 255, 255>>
      [] name = W_hospital -> <<250, 120, 200, 255>>
      [] name = W_public -> <<120, 220, 180, 255>>
      [] name = W_default -> <<200, 200, 200, 255>>

\* no color decided yet
NoColor == <<>>

\* the body of the loop of _footprint_color for one value: the color it
\* returns, or NoColor when the loop goes on to the next key
ColorOfValue(x) ==
    IF x.t # "str" THEN NoColor
    ELSE LET val == lower(x.s)
         IN  IF val \in ColorNames THEN COLOR_MAP(val)
             ELSE IF val \in {W_apartments, W_house, W_residential}
                  THEN COLOR_MAP(W_residential)
             ELSE IF val \in {W_retail, W_shop, W_mall}
                  THEN COLOR_MAP(W_retail)
             ELSE IF val \in {W_commercial, W_hotel}
                  THEN COLOR_MAP(W_commercial)
             ELSE IF val \in {W_industrial, W_warehouse}
                  THEN COLOR_MAP(W_industrial)
             ELSE IF val \in {W_school, W_university, W_college}
                  THEN COLOR_MAP(W_education)
             ELSE IF val \in {W_hospital, W_clinic}
                  THEN COLOR_MAP(W_hospital)
             ELSE IF val \in {W_office}
                  THEN COLOR_MAP(W_office)
             ELSE NoColor

\* a scan that gives up at the first key whose value matches nothing
ScanColorFirstKeyOnly(a, keys) ==
    IF keys = <<>> THEN COLOR_MAP(W_default)
    ELSE LET key == Head(keys)
             c == ColorOfValue(IF key \in DOMAIN a THEN a[key] ELSE PyNone)
         IN  IF c # NoColor THEN c ELSE COLOR_MAP(W_default)

\* the loop of _footprint_color over the keys, and the return after it
RECURSIVE ScanColor(_, _)
ScanColor(a, keys) ==
    IF keys = <<>> THEN COLOR_MAP(W_default)
    ELSE LET key == Head(keys)
             c == ColorOfValue(IF key \in DOMAIN a THEN a[key] ELSE PyNone)
         IN  IF c # NoColor THEN c ELSE ScanColor(a, Tail(keys))

_footprint_color(a) ==
    ScanColor(a, <<"building:use", "landuse", "building">>)

----------------------------------------------------------------------------
(* Attribute mappings the classifier is run on *)

T_12m == <<"1", "2", "m">>
T_1m2 == <<"1", "m", "2">>
T_12m_blanks == <<" ", "1", "2", " ", "m">>
T_nan == <<"n", "a", "n">>
T_NaN == <<"N", "a", "N">>
T_neg5 == <<"-", "5">>
T_2p5 == <<"2", ".", "5">>
T_4_blanks == <<" ", "4", " ">>
T_4m == <<"4", "m">>
T_Residential == <<"R","e","s","i","d","e","n","t","i","a","l">>
T_RETAIL == <<"R","E","T","A","I","L">>
T_yes == <<"y", "e", "s">>
T_Hotel == <<"H","o","t","e","l">>
T_SCHOOL == <<"S","C","H","O","O","L">>
T_Clinic == <<"C","l","i","n","i","c">>
T_House == <<"H","o","u","s","e">>

\* the key is not in the mapping
Absent == [t |-> "absent", s |-> <<>>, v |-> 0]

HeightValues ==
    {Absent, PyNone, PyNaN, PyNum(1200), PyNum(250),
     PyStr(<<>>), PyStr(T_NaN), PyStr(T_nan), PyStr(T_12m), PyStr(<<"2">>),
     PyStr(T_1m2), PyStr(<<"x">>), PyStr(T_12m_blanks), PyStr(T_neg5),
     PyStr(T_2p5)}
BuildingHeightValues ==
    {Absent, PyNaN, PyStr(<<>>), PyStr(<<"1", "0">>), PyStr(<<"9", "m">>),
     PyStr(<<"x">>)}
BuildingLevelsValues ==
    {Absent, PyNone, PyNaN, PyNum(400), PyStr(T_NaN), PyStr(T_nan),
     PyStr(<<"4">>), PyStr(T_4_blanks), PyStr(T_4m), PyStr(<<"0">>),
     PyStr(<<"-", "1">>), PyStr(<<"x">>)}
LevelsValues ==
    {Absent, PyNaN, PyStr(<<>>), PyStr(<<"2">>), PyStr(<<"x">>)}
UseValues == {Absent, PyNaN, PyStr(T_Residential), PyStr(<<"x">>)}
LanduseValues == {Absent, PyStr(T_RETAIL), PyStr(W_default)}
BuildingValues == {Absent, PyNum(100), PyStr(T_yes), PyStr(W_warehouse)}

\* every word _footprint_color knows, and some of them in other letter cases
ColorWords ==
    ColorNames \cup
    {W_apartments, W_house, W_shop, W_mall, W_hotel, W_warehouse, W_school,
     W_university, W_college, W_clinic}
UseTexts ==
    {Absent, PyStr(<<"x">>), PyStr(T_Residential), PyStr(T_Hotel),
     PyStr(T_SCHOOL)}
    \cup {PyStr(w) : w \in ColorWords}
LanduseTexts ==
    {Absent, PyStr(<<"x">>), PyStr(T_RETAIL), PyStr(W_default),
     PyStr(W_public), PyStr(T_Clinic)}
BuildingTexts ==
    {Absent, PyNum(100), PyStr(T_yes), PyStr(W_warehouse), PyStr(T_House),
     PyStr(W_office)}

Keys ==
    <<"height", "building:height", "building:levels", "levels",
      "building:use", "landuse", "building">>

\* the mapping that holds vals[i] under Keys[i], a key with Absent left out
MkAttrs(vals) ==
    LET present == {i \in 1..Len(Keys) : vals[i] # Absent}
        at(k) == CHOOSE i \in present : Keys[i] = k
    IN  [k \in {Keys[i] : i \in present} |-> vals[at(k)]]

\* every height and levels value, with few colors; every color value, with
\* few heights; every color word, with no heights
AttrMaps ==
    {MkAttrs(<<h, bh, bl, l, Absent, Absent, b>>) :
        h \in HeightValues, bh \in BuildingHeightValues,
        bl \in BuildingLevelsValues, l \in LevelsValues,
        b \in {Absent, PyStr(W_warehouse)}}
    \cup
    {MkAttrs(<<h, Absent, bl, Absent, u, lu, b>>) :
        h \in {Absent, PyStr(T_12m)}, bl \in {Absent, PyStr(<<"4">>)},
        u \in UseValues, lu \in LanduseValues, b \in BuildingValues}
    \cup
    {MkAttrs(<<Absent, Absent, Absent, Absent, u, lu, b>>) :
        u \in UseTexts, lu \in LanduseTexts, b \in BuildingTexts}

NoAttrs == MkAttrs(<<Absent, Absent, Absent, Absent, Absent, Absent, Absent>>)

----------------------------------------------------------------------------
(* Geometry.  A polygon is described by what the geometry library answers  *)
(* about it: whether it is valid, its area (in units of 1e-12), what       *)
(* buffer(0) makes of it, how many vertices it has and how many of them    *)
(* simplify(0.05) drops, and how trimesh deals with it.  A library call    *)
(* the code wraps in try/except may raise; one it leaves unguarded is      *)
(* taken to return.                                                        *)

AREA_EPS == 1

Poly(valid, area, fixType, fixAreas, nverts, spare, extrude, paint) ==
    [valid |-> valid, area |-> area, fixType |-> fixType,
     fixAreas |-> fixAreas, nverts |-> nverts, spare |-> spare,
     extrude |-> extrude, paint |-> paint]

\* valid, well above the area threshold, extrudes at once
P_good == Poly(TRUE, 5, "Polygon", <<5>>, 6, 2, "ok", TRUE)
\* valid, area exactly at the threshold
P_sliver == Poly(TRUE, 1, "Polygon", <<1>>, 4, 0, "ok", TRUE)
\* a triangle with a duplicated point: invalid, buffer(0) leaves an empty polygon
P_duptri == Poly(FALSE, 0, "Polygon", <<0>>, 4, 0, "ok", TRUE)
\* self-intersecting: buffer(0) splits it in two parts
P_bowtie == Poly(FALSE, 4, "MultiPolygon", <<2, 3>>, 5, 0, "ok", TRUE)
\* invalid, buffer(0) repairs it to one polygon
P_fixable == Poly(FALSE, 4, "Polygon", <<3>>, 5, 0, "ok", TRUE)
\* invalid, buffer(0) yields neither a polygon nor a multi-polygon
P_broken == Poly(FALSE, 4, "GeometryCollection", <<>>, 5, 0, "ok", TRUE)
\* valid, the first extrusion raises, the buffered one succeeds
P_defect == Poly(TRUE, 4, "Polygon", <<4>>, 4, 0, "retry", TRUE)
\* valid, both extrusions raise
P_hopeless == Poly(TRUE, 4, "Polygon", <<4>>, 4, 0, "fail", TRUE)
\* valid and extruded, but assigning its vertex colors raises
P_unpaintable == Poly(TRUE, 4, "Polygon", <<4>>, 4, 0, "ok", FALSE)

PolyShapes ==
    {P_good, P_sliver, P_duptri, P_bowtie, P_fixable, P_broken, P_defect,
     P_hopeless, P_unpaintable}

Geom(type, parts) == [type |-> type, parts |-> parts]

Geometries ==
    {Geom("Polygon", <<p>>) : p \in PolyShapes}
    \cup {Geom("Point", <<>>),
          Geom("MultiPolygon", <<P_good, P_sliver>>),
          Geom("MultiPolygon", <<P_defect, P_good>>)}

\* the index of the first largest element of a non-empty sequence of areas:
\* max(poly.geoms, key=lambda g: g.area)
ArgMax(areas) ==
    CHOOSE k \in 1..Len(areas) :
        /\ \A j \in 1..Len(areas) : areas[j] <= areas[k]
        /\ \A j \in 1..(k - 1) : areas[j] < areas[k]

\* geometry.simplify(0.05, preserve_topology=True) on one polygon
simplify(p) == [p EXCEPT !.nverts = p.nverts - p.spare, !.spare = 0]

----------------------------------------------------------------------------
(* Extruder *)

\* one call of extrude_polygon: the polygon, the distance it was buffered by
\* before (in hundredths), the height asked for
BUFFER_RETRY == 5
Call(p, dist, h) == [poly |-> p, buffer |-> dist, height |-> h]
NoCalls == <<>>
FirstCall(p, h) == <<Call(p, 0, h)>>
BothCalls(p, h) == <<Call(p, 0, h), Call(p, BUFFER_RETRY, h)>>

Raised(exc, calls) == [ok |-> FALSE, exc |-> exc, calls |-> calls, mesh |-> <<>>]
Returned(m, calls) == [ok |-> TRUE, exc |-> "", calls |-> calls, mesh |-> m]

\* trimesh.creation.extrude_polygon(poly, height=h); buffered tells whether
\* poly is the poly.buffer(0.05) of the retry
Mesh(p, h, buffered) ==
    [height |-> h, area |-> p.area, nverts |-> p.nverts,
     buffered |-> buffered, paint |-> p.paint, color |-> NoColor]

\* Repair that keeps the first part of a multi-polygon, not the largest
RepairFirstPart(p) ==
    IF p.valid THEN Returned(p, NoCalls)
    ELSE IF p.fixType \in {"Polygon", "MultiPolygon"}
         THEN Returned([p EXCEPT !.valid = TRUE, !.area = p.fixAreas[1]],
                       NoCalls)
    ELSE Raised("ValueError: Invalid polygon after buffer(0)", NoCalls)

\* lines 93 to 99: the polygon that goes on, or the exception
Repair(p) ==
    IF p.valid THEN Returned(p, NoCalls)
    ELSE IF p.fixType = "Polygon"
         THEN Returned([p EXCEPT !.valid = TRUE, !.area = p.fixAreas[1]],
                       NoCalls)
    ELSE IF p.fixType = "MultiPolygon"
         THEN Returned([p EXCEPT !.valid = TRUE,
                                 !.area = p.fixAreas[ArgMax(p.fixAreas)]],
                       NoCalls)
    ELSE Raised("ValueError: Invalid polygon after buffer(0)", NoCalls)

\* _polygon_to_trimesh with the sliver test "<" instead of "<="
polygon_to_trimesh_strict_less(poly, height) ==
    LET r == Repair(poly)
        q == r.mesh
        h == py_max(height, PyNum(MIN_HEIGHT_M))
    IN  IF ~r.ok THEN r
        ELSE IF q.area < AREA_EPS
             THEN Raised("ValueError: Polygon too small", NoCalls)
        ELSE IF q.extrude = "ok"
             THEN Returned(Mesh(q, h, FALSE), FirstCall(q, h))
        ELSE IF q.extrude = "retry"
             THEN Returned(Mesh(q, h, TRUE), BothCalls(q, h))
        ELSE Raised("Exception: extrude_polygon", BothCalls(q, h))

\* _polygon_to_trimesh without the except clause of line 106: the first
\* failure of extrude_polygon leaves it
polygon_to_trimesh_no_retry(poly, height) ==
    LET r == Repair(poly)
        q == r.mesh
        h == py_max(height, PyNum(MIN_HEIGHT_M))
    IN  IF ~r.ok THEN r
        ELSE IF q.area <= AREA_EPS
             THEN Raised("ValueError: Polygon too small", NoCalls)
        ELSE IF q.extrude = "ok"
             THEN Returned(Mesh(q, h, FALSE), FirstCall(q, h))
        ELSE Raised("Exception: extrude_polygon", FirstCall(q, h))

\* calls lists the calls of extrude_polygon it made
_polygon_to_trimesh(poly, height) ==
    LET r == Repair(poly)
        q == r.mesh
        h == py_max(height, PyNum(MIN_HEIGHT_M))
    IN  IF ~r.ok THEN r
        ELSE IF q.area <= AREA_EPS
             THEN Raised("ValueError: Polygon too small", NoCalls)
        ELSE IF q.extrude = "ok"
             THEN Returned(Mesh(q, h, FALSE), FirstCall(q, h))
        ELSE IF q.extrude = "retry"
             THEN Returned(Mesh(q, h, TRUE), BothCalls(q, h))
        ELSE Raised("Exception: extrude_polygon", BothCalls(q, h))

----------------------------------------------------------------------------
(* Footprint fetcher and coordinate normalizer *)

MkRow(geometry, a, crs) == [geometry |-> geometry, attrs |-> a, crs |-> crs]
Frame(crs, rows) == [crs |-> crs, rows |-> rows]

\* ox.utils_geo.bbox_from_point: (north, south, east, west) in units of
\* 1e-5 degree, a metre taken as one unit on both axes; it checks nothing
_bbox_from_point_m(lat, lon, dist_m) ==
    <<100000 * lat + dist_m, 100000 * lat - dist_m,
      100000 * lon + dist_m, 100000 * lon - dist_m>>

\* GeoDataFrame.set_crs: the coordinates are declared to be in crs
set_crs(g, crs) ==
    Frame(crs, [k \in 1..Len(g.rows) |-> [g.rows[k] EXCEPT !.crs = crs]])

\* GeoDataFrame.to_crs: every geometry is reprojected to crs
to_crs(g, crs) ==
    Frame(crs, [k \in 1..Len(g.rows) |-> [g.rows[k] EXCEPT !.crs = crs]])

\* Reproject without the except branch's reprojection: the frame stays in
\* geographic coordinates when no UTM zone is found
ReprojectNoFallback(g, utmOK) ==
    LET g1 == IF g.crs = "None" THEN set_crs(g, "EPSG:4326") ELSE g
    IN  IF utmOK THEN to_crs(g1, "UTM") ELSE g1

\* lines 121 to 129; utmOK tells whether estimate_utm_crs and the
\* reprojection to it return
Reproject(g, utmOK) ==
    LET g1 == IF g.crs = "None" THEN set_crs(g, "EPSG:4326") ELSE g
    IN  IF utmOK THEN to_crs(g1, "UTM")
        ELSE to_crs(IF g1.crs = "None" THEN set_crs(g1, "EPSG:4326") ELSE g1,
                    "EPSG:3857")

\* line 131
\* no filter on the geometry type
KeepAll(g) == g

KeepPolygons(g) ==
    Frame(g.crs,
          SelectSeq(g.rows,
                    LAMBDA r : r.geometry.type \in {"Polygon", "MultiPolygon"}))

\* GeoDataFrame.explode(ignore_index=True): one row per part, the
\* attributes copied to each
\* an explode that leaves the attributes on the first part only
RECURSIVE ExplodeRowsFirstPartAttrs(_)
ExplodeRowsFirstPartAttrs(rows) ==
    IF rows = <<>> THEN <<>>
    ELSE LET r == Head(rows)
             parts == r.geometry.parts
         IN  [k \in 1..Len(parts) |->
                 MkRow(Geom("Polygon", <<parts[k]>>),
                       IF k = 1 THEN r.attrs ELSE NoAttrs, r.crs)]
             \o ExplodeRowsFirstPartAttrs(Tail(rows))

RECURSIVE ExplodeRows(_)
ExplodeRows(rows) ==
    IF rows = <<>> THEN <<>>
    ELSE LET r == Head(rows)
             parts == r.geometry.parts
         IN  [k \in 1..Len(parts) |->
                 MkRow(Geom("Polygon", <<parts[k]>>), r.attrs, r.crs)]
             \o ExplodeRows(Tail(rows))

explode(g) == Frame(g.crs, ExplodeRows(g.rows))

\* line 139
SimplifyAll(g) ==
    Frame(g.crs,
          [k \in 1..Len(g.rows) |->
              [g.rows[k] EXCEPT !.geometry.parts =
                  [j \in 1..Len(@) |-> simplify(@[j])]]])

\* fetch_buildings_gdf after features_from_bbox returned raw
fetch_buildings_gdf(c, raw, utmOK) ==
    LET g == KeepPolygons(Reproject(raw, utmOK))
        e == IF c.merge_multipolygons THEN explode(g) ELSE g
    IN  IF g.rows = <<>> THEN g
        ELSE IF c.simplify THEN SimplifyAll(e) ELSE e

----------------------------------------------------------------------------
(* Scene assembler *)

\* a message is the sequence of its words
NoError == [type |-> "", msg |-> <<>>, cause |-> ""]
RuntimeError(msg, cause) == [type |-> "RuntimeError", msg |-> msg, cause |-> cause]

M_download == <<"No", "se", "pudo", "descargar", "datos", "OSM:", "{e}">>
M_nobuildings ==
    <<"No", "se", "encontraron", "edificios", "en", "el", "area",
      "seleccionada.", "Intenta", "aumentar", "el", "radio.">>
M_nomesh == <<"No", "se", "pudo", "crear", "ninguna", "malla.">>

NotExported == [written |-> FALSE, meshes |-> <<>>]
Exported(meshes) == [written |-> TRUE, meshes |-> meshes]
NoPath == ""
out_path == "osm_buildings.glb"

\* lines 169 to 173 on an extruded mesh: the colors are assigned, then the
\* mesh is added
Paint(m, rgba) == [m EXCEPT !.color = rgba]

\* what became of one polygon of the inner loop: the polygon, the height
\* classified for its footprint, the calls of extrude_polygon made for it,
\* whether its mesh was added to the scene, and whether anything was written
\* about it (the except clause of lines 174 and 175 only continues)
Attempt(p, height, r) ==
    [poly |-> p, height |-> height, calls |-> r.calls,
     added |-> r.ok /\ r.mesh.paint, logged |-> FALSE,
     exc |-> IF ~r.ok THEN r.exc
             ELSE IF r.mesh.paint THEN "" ELSE "ValueError: vertex_colors"]

\* the inner loop without its except clause: the first exception leaves it
RECURSIVE ProcessPolysNoCatch(_, _, _, _, _, _, _)
ProcessPolysNoCatch(polys, height, rgba, sc, cnt, sw, at) ==
    IF polys = <<>>
    THEN [scene |-> sc, count |-> cnt, swallowed |-> sw, attempts |-> at,
          raised |-> ""]
    ELSE LET r == _polygon_to_trimesh(Head(polys),
                                      py_max(height, PyNum(MIN_HEIGHT_M)))
             a == Attempt(Head(polys), height, r)
         IN  IF r.ok /\ r.mesh.paint
             THEN ProcessPolysNoCatch(Tail(polys), height, rgba,
                                      Append(sc, Paint(r.mesh, rgba)),
                                      cnt + 1, sw, Append(at, a))
             ELSE [scene |-> sc, count |-> cnt, swallowed |-> sw,
                   attempts |-> Append(at, a),
                   raised |-> IF r.ok THEN "ValueError: vertex_colors"
                              ELSE r.exc]

\* the inner loop with the color kept in a variable shared by the polygons:
\* once the scene holds a mesh, later meshes are painted like it
RECURSIVE ProcessPolysSharedColor(_, _, _, _, _, _, _)
ProcessPolysSharedColor(polys, height, rgba, sc, cnt, sw, at) ==
    IF polys = <<>>
    THEN [scene |-> sc, count |-> cnt, swallowed |-> sw, attempts |-> at,
          raised |-> ""]
    ELSE LET r == _polygon_to_trimesh(Head(polys),
                                      py_max(height, PyNum(MIN_HEIGHT_M)))
             a == Attempt(Head(polys), height, r)
             shared == IF sc = <<>> THEN rgba ELSE sc[1].color
         IN  IF r.ok /\ r.mesh.paint
             THEN ProcessPolysSharedColor(Tail(polys), height, rgba,
                                          Append(sc, Paint(r.mesh, shared)),
                                          cnt + 1, sw, Append(at, a))
             ELSE ProcessPolysSharedColor(Tail(polys), height, rgba, sc,
                                          cnt, sw + 1, Append(at, a))

\* the inner loop with the count incremented before the try block: a
\* skipped polygon is counted too
RECURSIVE ProcessPolysCountsSkipped(_, _, _, _, _, _, _)
ProcessPolysCountsSkipped(polys, height, rgba, sc, cnt, sw, at) ==
    IF polys = <<>>
    THEN [scene |-> sc, count |-> cnt, swallowed |-> sw, attempts |-> at,
          raised |-> ""]
    ELSE LET r == _polygon_to_trimesh(Head(polys),
                                      py_max(height, PyNum(MIN_HEIGHT_M)))
             a == Attempt(Head(polys), height, r)
         IN  IF r.ok /\ r.mesh.paint
             THEN ProcessPolysCountsSkipped(Tail(polys), height, rgba,
                                            Append(sc, Paint(r.mesh, rgba)),
                                            cnt + 1, sw, Append(at, a))
             ELSE ProcessPolysCountsSkipped(Tail(polys), height, rgba, sc,
                                            cnt + 1, sw + 1, Append(at, a))

\* the inner loop, lines 166 to 175, from a scene sc and a count cnt:
\* every exception of the try block is caught and the loop goes on, so
\* raised stays empty
RECURSIVE ProcessPolys(_, _, _, _, _, _, _)
ProcessPolys(polys, height, rgba, sc, cnt, sw, at) ==
    IF polys = <<>>
    THEN [scene |-> sc, count |-> cnt, swallowed |-> sw, attempts |-> at,
          raised |-> ""]
    ELSE LET r == _polygon_to_trimesh(Head(polys),
                                      py_max(height, PyNum(MIN_HEIGHT_M)))
             a == Attempt(Head(polys), height, r)
         IN  IF r.ok /\ r.mesh.paint
             THEN ProcessPolys(Tail(polys), height, rgba,
                               Append(sc, Paint(r.mesh, rgba)), cnt + 1, sw,
                               Append(at, a))
             ELSE ProcessPolys(Tail(polys), height, rgba, sc, cnt, sw + 1,
                               Append(at, a))

\* lines 159 to 164: the polygons of a geometry; none for any other type
\* only the first polygon of a multi-polygon
PolysOfFirstPart(geom) ==
    IF geom.type \in {"Polygon", "MultiPolygon"} THEN <<Head(geom.parts)>>
    ELSE <<>>

PolysOf(geom) ==
    IF geom.type \in {"Polygon", "MultiPolygon"} THEN geom.parts ELSE <<>>

----------------------------------------------------------------------------
(* The footprint source and the inputs of a pipeline run *)

MaxFeatures == 2

Flags == BOOLEAN \X BOOLEAN

Config(lat, lon, radius_m, simp, merge) ==
    [lat |-> lat, lon |-> lon, radius_m |-> radius_m, simplify |-> simp,
     merge_multipolygons |-> merge]

Configs ==
    {Config(19, -99, 500, f[1], f[2]) : f \in Flags}
    \cup {Config(90, -180, 1, TRUE, TRUE), Config(91, 0, 500, TRUE, TRUE),
          Config(0, -181, 500, TRUE, TRUE), Config(0, 0, 0, TRUE, TRUE)}

\* two rows of one table: every column is in every row, with not-a-number
\* where the footprint lacks the tag
A_low ==
    MkAttrs(<<PyStr(<<"2">>), Absent, PyNaN, Absent,
              PyStr(T_Residential), Absent, PyStr(T_yes)>>)
A_lev ==
    MkAttrs(<<PyNaN, Absent, PyStr(<<"4">>), Absent,
              PyNaN, Absent, PyStr(W_warehouse)>>)

A_tall ==
    MkAttrs(<<PyStr(T_12m), Absent, PyNaN, Absent,
              PyNaN, Absent, PyStr(W_hotel)>>)

Feature(g, a) == [geometry |-> g, attrs |-> a]
\* every geometry with a low height tag, some with none or a tall one
Features ==
    {Feature(g, A_low) : g \in Geometries}
    \cup {Feature(g, A_lev) :
            g \in {Geom("Polygon", <<P_good>>), Geom("Polygon", <<P_defect>>),
                   Geom("Polygon", <<P_duptri>>),
                   Geom("MultiPolygon", <<P_defect, P_good>>)}}
    \cup {Feature(g, A_tall) :
            g \in {Geom("Polygon", <<P_good>>), Geom("Polygon", <<P_bowtie>>)}}

FeatureSeqs == UNION {[1..n -> Features] : n \in 0..MaxFeatures}

SourceCrs == {"None", "EPSG:4326"}
Causes == {"timeout", "unreachable"}

\* what features_from_bbox returns: the features, in the source's CRS
RawFrame(crs, fs) ==
    Frame(crs, [k \in 1..Len(fs) |-> MkRow(fs[k].geometry, fs[k].attrs, crs)])

EmptyFrame == Frame("None", <<>>)

\* the answers of the source: it raised (cause), or it returned the n
\* features fs in CRS crs; utmOK is whether a UTM zone can be estimated for
\* them
NotCalled == [outcome |-> "not called", cause |-> "", crs |-> "", n |-> 0,
              features |-> <<>>, utmOK |-> FALSE]
SourceRaised(cause) ==
    [outcome |-> "raised", cause |-> cause, crs |-> "", n |-> 0,
     features |-> <<>>, utmOK |-> FALSE]
SourceReturned(crs, fs, utmOK) ==
    [outcome |-> "returned", cause |-> "", crs |-> crs, n |-> Len(fs),
     features |-> fs, utmOK |-> utmOK]

----------------------------------------------------------------------------
(* Monthly climate series: leer_csv of bioclima_model.py and the           *)
(* alturas_conceptuales of bioclima_model.py, appModel.py and              *)
(* appMapsSearch.py.  A csv file is the cells of its first line            *)
(* (fieldnames) and of the lines after it, each cell a text; a series is   *)
(* a sequence of PyNum and PyNaN.                                          *)

W_mes == <<"m","e","s">>
W_tmax == <<"t","m","a","x">>
W_temp_max == <<"t","e","m","p","_","m","a","x">>
W_tempmax == <<"t","e","m","p","m","a","x">>
W_tmin == <<"t","m","i","n">>
W_temp_min == <<"t","e","m","p","_","m","i","n">>
W_tempmin == <<"t","e","m","p","m","i","n">>
W_viento == <<"v","i","e","n","t","o">>
W_wind == <<"w","i","n","d">>
W_vel_viento == <<"v","e","l","_","v","i","e","n","t","o">>
W_wind_speed == <<"w","i","n","d","_","s","p","e","e","d">>
W_radiacion == <<"r","a","d","i","a","c","i","o","n">>
W_radiation == <<"r","a","d","i","a","t","i","o","n">>
W_rad == <<"r","a","d">>

CsvFile(fieldnames, lines) == [fieldnames |-> fieldnames, lines |-> lines]
ClimaMensual(tmax, tmin, viento, radiacion) ==
    [tmax |-> tmax, tmin |-> tmin, viento |-> viento, radiacion |-> radiacion]
IndexError == [t |-> "IndexError", s |-> <<>>, v |-> 0]
\* radiacion is None
NoSeries == <<>>
\* the number of months of a series
NumMonths == 12

\* line 81: the row of a DictReader with its keys stripped and lower-cased;
\* of two columns with the same key the later one stays
RowDict(fieldnames, cells) ==
    LET key(i) == lower(strip(fieldnames[i]))
        last(k) == CHOOSE i \in 1..Len(fieldnames) :
                       /\ key(i) = k
                       /\ \A j \in 1..Len(fieldnames) : key(j) = k => j <= i
    IN  [k \in {key(i) : i \in 1..Len(fieldnames)} |-> cells[last(k)]]

\* lines 71 to 76: the row of a plain reader, columns in the fixed order
\* tmax, tmin, viento, radiacion
PositionalDict(cells) ==
    (W_tmax :> cells[1]) @@ (W_tmin :> cells[2]) @@ (W_viento :> cells[3])
    @@ (W_radiacion :> IF Len(cells) > 3 THEN cells[4] ELSE <<>>)

\* lines 85 to 89
RECURSIVE pick(_, _)
pick(r, keys) ==
    IF keys = <<>> THEN <<>>
    ELSE IF Head(keys) \in DOMAIN r /\ r[Head(keys)] # <<>>
         THEN r[Head(keys)]
         ELSE pick(r, Tail(keys))

\* the body of the loop of to_float_list
to_float(v) == IF strip(v) = <<>> THEN PyNaN ELSE float_text(v)

\* the elements of s at the indices that are in keep, in order
RECURSIVE Masked(_, _, _)
Masked(s, keep, j) ==
    IF j > Len(s) THEN <<>>
    ELSE (IF j \in keep THEN <<s[j]>> ELSE <<>>) \o Masked(s, keep, j + 1)

\* s[:n]
FirstN(s, n) == SubSeq(s, 1, IF Len(s) < n THEN Len(s) ELSE n)

\* leer_csv(path) on the file at path: a ClimaMensual, or the exception
\* that leaves it
leer_csv(f) ==
    LET headerless ==
            \A i \in 1..Len(f.fieldnames) : strip(f.fieldnames[i]) = <<>>
        all == <<f.fieldnames>> \o f.lines
        plain == SelectSeq(all, LAMBDA cells :
                    \E i \in 1..Len(cells) : strip(cells[i]) # <<>>)
        short == \E j \in 1..Len(plain) : Len(plain[j]) < 3
        filas == IF headerless
                 THEN [j \in 1..Len(plain) |->
                          IF Len(plain[j]) < 3 THEN <<>>
                          ELSE PositionalDict(plain[j])]
                 ELSE [j \in 1..Len(f.lines) |->
                          RowDict(f.fieldnames, f.lines[j])]
        col(keys) == [j \in 1..Len(filas) |-> to_float(pick(filas[j], keys))]
        tmax == col(<<W_tmax, W_temp_max, W_tempmax>>)
        tmin == col(<<W_tmin, W_temp_min, W_tempmin>>)
        viento == col(<<W_viento, W_wind, W_vel_viento, W_wind_speed>>)
        radiacion == col(<<W_radiacion, W_radiation, W_rad>>)
        mask == {j \in 1..Len(filas) :
                    /\ tmax[j].t # "nan"
                    /\ tmin[j].t # "nan"
                    /\ viento[j].t # "nan"}
        rad == IF \A j \in 1..Len(filas) : radiacion[j].t = "nan"
               THEN NoSeries
               ELSE FirstN(Masked(radiacion, mask, 1), NumMonths)
    IN  IF headerless /\ short THEN IndexError
        ELSE IF \E j \in 1..Len(filas) :
                    ValueError \in {tmax[j], tmin[j], viento[j], radiacion[j]}
             THEN ValueError
        ELSE IF Cardinality(mask) < NumMonths THEN ValueError
        ELSE ClimaMensual(FirstN(Masked(tmax, mask, 1), NumMonths),
                          FirstN(Masked(tmin, mask, 1), NumMonths),
                          FirstN(Masked(viento, mask, 1), NumMonths), rad)

\* a quotient n / d of two integers, d > 0; the floats alturas_conceptuales
\* returns are kept as exact quotients
Quot(n, d) == [t |-> "float", n |-> n, d |-> d]
QuotNaN == [t |-> "nan", n |-> 0, d |-> 1]
QuotInf(sign) == [t |-> "inf", n |-> sign, d |-> 1]

\* tmax + 0.5*viento + 0.1*rad for one month; the operands are in
\* hundredths, the sum is in units of 1/2000 so that it is exact
Mix(t, w, r) ==
    IF "nan" \in {t.t, w.t, r.t} THEN PyNaN
    ELSE PyNum(20 * t.v + 10 * w.v + 2 * r.v)

\* np.max(h): not-a-number if any element is
np_max(h) ==
    IF \E j \in 1..Len(h) : h[j].t = "nan" THEN PyNaN
    ELSE PyNum(CHOOSE m \in {h[j].v : j \in 1..Len(h)} :
                   \A j \in 1..Len(h) : h[j].v <= m)

\* (x / max_h) * 100.0, x and max_h in the same unit
Normalized(x, max_h) ==
    IF x.t = "nan" \/ max_h.t = "nan" THEN QuotNaN
    ELSE IF max_h.v = 0
         THEN IF x.v = 0 THEN QuotNaN ELSE QuotInf(IF x.v > 0 THEN 1 ELSE -1)
    ELSE IF max_h.v > 0 THEN Quot(100 * x.v, max_h.v)
    ELSE Quot(-100 * x.v, -max_h.v)

\* h and its maximum, as all three files compute them
MixAll(tmax, viento, radiacion) ==
    LET rad == IF radiacion = NoSeries THEN [j \in 1..Len(tmax) |-> PyNum(0)]
               ELSE radiacion
    IN  [j \in 1..Len(tmax) |-> Mix(tmax[j], viento[j], rad[j])]
MaxOrOne(h) ==
    IF \E j \in 1..Len(h) : h[j].t = "float" THEN np_max(h) ELSE PyNum(2000)

\* alturas_conceptuales of bioclima_model.py and of appModel.py
alturas_conceptuales(tmax, viento, radiacion) ==
    LET h == MixAll(tmax, viento, radiacion)
        max_h == IF MaxOrOne(h) = PyNum(0) THEN PyNum(2000) ELSE MaxOrOne(h)
    IN  [j \in 1..Len(h) |-> Normalized(h[j], max_h)]

\* alturas_conceptuales of appMapsSearch.py: no test for a zero maximum
alturas_conceptuales_appMapsSearch(tmax, viento, radiacion) ==
    LET h == MixAll(tmax, viento, radiacion)
    IN  [j \in 1..Len(h) |-> Normalized(h[j], MaxOrOne(h))]

----------------------------------------------------------------------------
(* Files and series the climate functions are run on *)

Rot(k) == [j \in 1..NumMonths |-> ((j - 1 + k) % NumMonths) + 1]
SwapAdjacent(k) ==
    [j \in 1..NumMonths |-> IF j = k THEN k + 1 ELSE IF j = k + 1 THEN k ELSE j]
Reversed == [j \in 1..NumMonths |-> NumMonths + 1 - j]
\* the month of each line of a file, in file order
RowOrders ==
    {Rot(k) : k \in 0..(NumMonths - 1)}
    \cup {SwapAdjacent(k) : k \in 1..(NumMonths - 1)}
    \cup {Reversed}

\* the cell of month m in a column of the given kind; the radiation of
\* March was not measured
Cell(kind, m) ==
    CASE kind = "mes" -> DecText(m)
      [] kind = "tmax" -> DecText(20 + m)
      [] kind = "tmin" -> DecText(5 + m)
      [] kind = "viento" -> DecText(m)
      [] kind = "radiacion" -> IF m = 3 THEN <<>> ELSE DecText(100 + m)

Col(name, kind) == [name |-> name, kind |-> kind]
L_mes ==
    <<Col(W_mes, "mes"), Col(W_tmax, "tmax"), Col(W_tmin, "tmin"),
      Col(W_viento, "viento")>>
L_plain == <<Col(W_tmax, "tmax"), Col(W_tmin, "tmin"), Col(W_viento, "viento")>>
L_mixed ==
    <<Col(<<" ", "M", "e", "s">>, "mes"),
      Col(<<"T", "e", "m", "p", "_", "M", "a", "x", " ">>, "tmax"),
      Col(W_tempmin, "tmin"), Col(W_wind, "viento"), Col(W_rad, "radiacion")>>
L_headerless ==
    <<Col(<<>>, "tmax"), Col(<<" ">>, "tmin"), Col(<<>>, "viento")>>
Layouts == {L_mes, L_plain, L_mixed, L_headerless}

\* the file with the columns of layout and one line per month of order
FileOf(layout, order) ==
    CsvFile([c \in 1..Len(layout) |-> layout[c].name],
            [j \in 1..Len(order) |->
                [c \in 1..Len(layout) |-> Cell(layout[c].kind, order[j])]])

CsvFiles ==
    {FileOf(l, o) : l \in Layouts, o \in RowOrders}
    \cup {FileOf(L_mes, SubSeq(Rot(0), 1, NumMonths - 1)),
          CsvFile(<<>>, <<>>)}
NoFile == CsvFile(<<>>, <<>>)

Const(v) == [j \in 1..NumMonths |-> PyNum(v)]
OneOff(b, a, k) == [j \in 1..NumMonths |-> PyNum(IF j = k THEN a ELSE b)]
TmaxValues == {-500, 0, 1000, 3000}
TmaxSeries ==
    {OneOff(b, a, k) : b \in TmaxValues, a \in TmaxValues, k \in {1, NumMonths}}
VientoSeries == {Const(0), Const(400)}
RadiacionSeries ==
    {NoSeries, Const(18000),
     [j \in 1..NumMonths |-> IF j = 5 THEN PyNaN ELSE PyNum(18000)]}
Climas ==
    {ClimaMensual(t, Const(1500), w, r) :
        t \in TmaxSeries, w \in VientoSeries, r \in RadiacionSeries}
NoClima == ClimaMensual(<<>>, <<>>, <<>>, NoSeries)
Modules == {"bioclima_model", "appModel", "appMapsSearch"}

----------------------------------------------------------------------------
(* build_glb_from_osm(cfg, out_path), step by step *)

ClassifierIdle ==
    /\ attrs = NoAttrs
    /\ cpc = "idle"
    /\ height_m = PyNone
    /\ color = NoColor

BioclimaIdle ==
    /\ module = "bioclima_model"
    /\ bpc = "idle"
    /\ csv = NoFile
    /\ clima = NoClima
    /\ alturas = <<>>

Init ==
    /\ cfg \in Configs
    /\ pc = "start"
    /\ bbox = <<>>
    /\ fetchCalls = 0
    /\ source = NotCalled
    /\ gdf = EmptyFrame
    /\ row = 0
    /\ scene = <<>>
    /\ count = 0
    /\ swallowed = 0
    /\ attempts = <<>>
    /\ err = NoError
    /\ exported = NotExported
    /\ ret = NoPath
    /\ ClassifierIdle
    /\ BioclimaIdle

\* FetchFails with a retry: after a failure the source is asked again
FetchFailsRetry ==
    /\ pc = "start"
    /\ fetchCalls < 2
    /\ \E cause \in Causes : source' = SourceRaised(cause)
    /\ bbox' = _bbox_from_point_m(cfg.lat, cfg.lon, cfg.radius_m)
    /\ fetchCalls' = fetchCalls + 1
    /\ UNCHANGED <<cfg, pc, gdf, row, scene, count, swallowed, attempts, err, exported,
                   ret>>
    /\ UNCHANGED cvars
    /\ UNCHANGED bvars

\* lines 112 to 118: the source raises, fetch_buildings_gdf raises
FetchFails ==
    /\ pc = "start"
    /\ \E cause \in Causes :
          /\ source' = SourceRaised(cause)
          /\ err' = RuntimeError(M_download, cause)
    /\ bbox' = _bbox_from_point_m(cfg.lat, cfg.lon, cfg.radius_m)
    /\ fetchCalls' = fetchCalls + 1
    /\ pc' = "done"
    /\ UNCHANGED <<cfg, gdf, row, scene, count, swallowed, attempts, exported, ret>>
    /\ UNCHANGED cvars
    /\ UNCHANGED bvars

\* FetchReturns that treats an empty answer as a failed download
FetchReturnsRaisesOnEmpty ==
    /\ pc = "start"
    /\ \E crs \in SourceCrs, fs \in FeatureSeqs, utmOK \in BOOLEAN :
          /\ source' = SourceReturned(crs, fs, utmOK)
          /\ gdf' = fetch_buildings_gdf(cfg, RawFrame(crs, fs), utmOK)
          /\ err' = IF fs = <<>> THEN RuntimeError(M_download, "empty")
                    ELSE err
          /\ pc' = IF fs = <<>> THEN "done" ELSE "fetched"
    /\ bbox' = _bbox_from_point_m(cfg.lat, cfg.lon, cfg.radius_m)
    /\ fetchCalls' = fetchCalls + 1
    /\ UNCHANGED <<cfg, row, scene, count, swallowed, attempts, exported, ret>>
    /\ UNCHANGED cvars
    /\ UNCHANGED bvars

\* lines 112 to 141: the source returns, fetch_buildings_gdf returns
FetchReturns ==
    /\ pc = "start"
    /\ \E crs \in SourceCrs, fs \in FeatureSeqs, utmOK \in BOOLEAN :
          /\ source' = SourceReturned(crs, fs, utmOK)
          /\ gdf' = fetch_buildings_gdf(cfg, RawFrame(crs, fs), utmOK)
    /\ bbox' = _bbox_from_point_m(cfg.lat, cfg.lon, cfg.radius_m)
    /\ fetchCalls' = fetchCalls + 1
    /\ pc' = "fetched"
    /\ UNCHANGED <<cfg, row, scene, count, swallowed, attempts, err, exported, ret>>
    /\ UNCHANGED cvars
    /\ UNCHANGED bvars

\* lines 145 and 146
RaiseNoBuildings ==
    /\ pc = "fetched"
    /\ gdf.rows = <<>>
    /\ err' = RuntimeError(M_nobuildings, "")
    /\ pc' = "done"
    /\ UNCHANGED <<cfg, bbox, fetchCalls, source, gdf, row, scene, count, swallowed, attempts,
                   exported, ret>>
    /\ UNCHANGED cvars
    /\ UNCHANGED bvars

\* lines 148 and 149
BeginAssembly ==
    /\ pc = "fetched"
    /\ gdf.rows # <<>>
    /\ scene' = <<>>
    /\ count' = 0
    /\ row' = 1
    /\ pc' = "loop"
    /\ UNCHANGED <<cfg, bbox, fetchCalls, source, gdf, swallowed, attempts, err, exported, ret>>
    /\ UNCHANGED cvars
    /\ UNCHANGED bvars

\* one pass of the loop of line 150
ProcessRow ==
    /\ pc = "loop"
    /\ row <= Len(gdf.rows)
    /\ LET r == gdf.rows[row]
           height == _footprint_height(r.attrs)
           rgba == _footprint_color(r.attrs)
           res == ProcessPolys(PolysOf(r.geometry), height, rgba, scene,
                               count, swallowed, attempts)
       IN  /\ scene' = res.scene
           /\ count' = res.count
           /\ swallowed' = res.swallowed
           /\ attempts' = res.attempts
           /\ IF res.raised = ""
              THEN /\ row' = row + 1
                   /\ UNCHANGED <<pc, err>>
              ELSE /\ err' = [type |-> "Exception", msg |-> <<res.raised>>,
                              cause |-> ""]
                   /\ pc' = "done"
                   /\ UNCHANGED row
    /\ UNCHANGED <<cfg, bbox, fetchCalls, source, gdf, exported, ret>>
    /\ UNCHANGED cvars
    /\ UNCHANGED bvars

\* lines 177 and 178
RaiseNoMesh ==
    /\ pc = "loop"
    /\ row > Len(gdf.rows)
    /\ count = 0
    /\ err' = RuntimeError(M_nomesh, "")
    /\ pc' = "done"
    /\ UNCHANGED <<cfg, bbox, fetchCalls, source, gdf, row, scene, count, swallowed, attempts,
                   exported, ret>>
    /\ UNCHANGED cvars
    /\ UNCHANGED bvars

\* Export without the test of line 177
ExportAlways ==
    /\ pc = "loop"
    /\ row > Len(gdf.rows)
    /\ exported' = Exported(scene)
    /\ ret' = out_path
    /\ pc' = "done"
    /\ UNCHANGED <<cfg, bbox, fetchCalls, source, gdf, row, scene, count,
                   swallowed, attempts, err>>
    /\ UNCHANGED cvars
    /\ UNCHANGED bvars

\* lines 180 and 181
Export ==
    /\ pc = "loop"
    /\ row > Len(gdf.rows)
    /\ count # 0
    /\ exported' = Exported(scene)
    /\ ret' = out_path
    /\ pc' = "done"
    /\ UNCHANGED <<cfg, bbox, fetchCalls, source, gdf, row, scene, count, swallowed, attempts,
                   err>>
    /\ UNCHANGED cvars
    /\ UNCHANGED bvars

Next ==
    \/ FetchFails
    \/ FetchReturns
    \/ RaiseNoBuildings
    \/ BeginAssembly
    \/ ProcessRow
    \/ RaiseNoMesh
    \/ Export

Spec == Init /\ [][Next]_vars

----------------------------------------------------------------------------
(* The classifier on one attribute mapping: lines 156 and 157 of            *)
(* build_glb_from_osm, one call after the other                             *)

PipelineIdle ==
    /\ cfg = Config(19, -99, 500, TRUE, TRUE)
    /\ pc = "idle"
    /\ bbox = <<>>
    /\ fetchCalls = 0
    /\ source = NotCalled
    /\ gdf = EmptyFrame
    /\ row = 0
    /\ scene = <<>>
    /\ count = 0
    /\ swallowed = 0
    /\ attempts = <<>>
    /\ err = NoError
    /\ exported = NotExported
    /\ ret = NoPath

ClassifyInit ==
    /\ attrs \in AttrMaps
    /\ cpc = "in"
    /\ height_m = PyNone
    /\ color = NoColor
    /\ PipelineIdle
    /\ BioclimaIdle

CallHeight ==
    /\ cpc = "in"
    /\ height_m' = _footprint_height(attrs)
    /\ cpc' = "height"
    /\ UNCHANGED <<attrs, color>>
    /\ UNCHANGED pvars
    /\ UNCHANGED bvars

CallColor ==
    /\ cpc = "height"
    /\ color' = _footprint_color(attrs)
    /\ cpc' = "done"
    /\ UNCHANGED <<attrs, height_m>>
    /\ UNCHANGED pvars
    /\ UNCHANGED bvars

ClassifyNext == CallHeight \/ CallColor

SpecClassify == ClassifyInit /\ [][ClassifyNext]_vars

----------------------------------------------------------------------------
(* The climate functions, called as main() of bioclima_model.py calls them *)
(* (leer_csv, then alturas_conceptuales) or on series the caller has       *)

BioclimaInit ==
    /\ \/ /\ module = "bioclima_model"
          /\ bpc = "csv"
          /\ csv \in CsvFiles
          /\ clima = NoClima
       \/ /\ module \in Modules
          /\ bpc = "clima"
          /\ csv = NoFile
          /\ clima \in Climas
    /\ alturas = <<>>
    /\ ClassifierIdle
    /\ PipelineIdle

CallLeerCsv ==
    /\ bpc = "csv"
    /\ clima' = leer_csv(csv)
    /\ bpc' = IF "tmax" \in DOMAIN clima' THEN "clima" ELSE "done"
    /\ UNCHANGED <<module, csv, alturas>>
    /\ UNCHANGED <<cvars, pvars>>

CallAlturas ==
    /\ bpc = "clima"
    /\ alturas' =
          IF module = "appMapsSearch"
          THEN alturas_conceptuales_appMapsSearch(clima.tmax, clima.viento,
                                                  clima.radiacion)
          ELSE alturas_conceptuales(clima.tmax, clima.viento, clima.radiacion)
    /\ bpc' = "done"
    /\ UNCHANGED <<module, csv, clima>>
    /\ UNCHANGED <<cvars, pvars>>

BioclimaNext == CallLeerCsv \/ CallAlturas

SpecBioclima == BioclimaInit /\ [][BioclimaNext]_vars

----------------------------------------------------------------------------
(* Properties of the pipeline, checked under Spec *)

\* the polygons of a sequence of rows, in the order the loop meets them
RECURSIVE PartsOf(_)
PartsOf(rows) ==
    IF rows = <<>> THEN <<>>
    ELSE PolysOf(Head(rows).geometry) \o PartsOf(Tail(rows))

\* the polygon yields a mesh when handled alone
YieldsMesh(p) ==
    LET r == _polygon_to_trimesh(p, PyNum(MIN_HEIGHT_M))
    IN  r.ok /\ r.mesh.paint

NumYielding(rows) == Len(SelectSeq(PartsOf(rows), YieldsMesh))

PipelineMessages == {M_download, M_nobuildings, M_nomesh}

\* C1: a failure on one polygon (repair, extrusion, coloring) never aborts
\* the run: the loop visits every row, every polygon that yields a mesh on
\* its own is in the scene whatever failed before it, and the only errors
\* the caller sees are the download error and the two nothing-produced errors.
C1_FailuresIsolated ==
    /\ err = NoError \/ (err.type = "RuntimeError" /\ err.msg \in PipelineMessages)
    /\ pc = "loop" =>
          /\ count = NumYielding(SubSeq(gdf.rows, 1, row - 1))
          /\ Len(scene) = count
    /\ (pc = "done" /\ gdf.rows # <<>>) =>
          /\ row = Len(gdf.rows) + 1
          /\ count = NumYielding(gdf.rows)
          /\ Len(scene) = count

\* a finished run in which the first polygon failed and a later one is in
\* the exported scene
C1_Witness ==
    /\ pc = "done"
    /\ exported.written
    /\ swallowed >= 1
    /\ ~YieldsMesh(PartsOf(gdf.rows)[1])
    /\ Len(exported.meshes) >= 1

\* what the claims call a simple non-degenerate polygon: valid, above the
\* area threshold, and handled by the extruder (at once or on the retry)
NonDegenerate(p) ==
    p.valid /\ p.area > AREA_EPS /\ p.extrude # "fail" /\ p.paint

\* a degenerate polygon: its area, after repair if it is invalid, is about 0
Degenerate(p) ==
    \/ p.valid /\ p.area <= AREA_EPS
    \/ ~p.valid /\ p.fixType = "Polygon" /\ p.fixAreas[1] <= AREA_EPS

SinglePolygonsOnly ==
    /\ source.outcome = "returned"
    /\ source.n = Len(gdf.rows)
    /\ \A k \in 1..Len(gdf.rows) :
          /\ gdf.rows[k].geometry.type = "Polygon"
          /\ LET p == gdf.rows[k].geometry.parts[1]
             IN  NonDegenerate(p) \/ Degenerate(p)

NumNonDegenerate == Len(SelectSeq(PartsOf(gdf.rows), NonDegenerate))

\* C2: for N >= 1 simple non-degenerate single polygons plus any number of
\* degenerate ones, the finished run exported exactly N meshes, none of them
\* from a degenerate polygon.
C2_ExactlyNMeshes ==
    (pc = "done" /\ SinglePolygonsOnly /\ NumNonDegenerate >= 1) =>
        /\ exported.written
        /\ Len(exported.meshes) = NumNonDegenerate
        /\ count = NumNonDegenerate
        /\ \A k \in 1..Len(exported.meshes) :
              exported.meshes[k].area > AREA_EPS

\* a finished run over one good polygon and one degenerate polygon
C2_Witness ==
    /\ pc = "done"
    /\ SinglePolygonsOnly
    /\ NumNonDegenerate = 1
    /\ Len(gdf.rows) = 2
    /\ Len(exported.meshes) = 1

\* C3: when the loop ended with zero meshes the run fails with the
\* nothing-produced error and nothing is exported; the scene is exported,
\* and the path returned, only when at least one mesh was added.
C3_EmptyResultOrExport ==
    /\ (pc = "done" /\ source.outcome = "returned" /\ count = 0) =>
          /\ err.type = "RuntimeError"
          /\ err.msg = IF gdf.rows = <<>> THEN M_nobuildings ELSE M_nomesh
          /\ ~exported.written
          /\ ret = NoPath
    /\ exported.written =>
          /\ count >= 1
          /\ Len(exported.meshes) = count
          /\ ret = out_path
          /\ err = NoError
    /\ ret # NoPath => exported.written

\* a finished run in which every polygon was rejected
C3_Witness ==
    /\ pc = "done"
    /\ Len(PartsOf(gdf.rows)) >= 2
    /\ swallowed = Len(PartsOf(gdf.rows))
    /\ err.msg = M_nomesh
    /\ ~exported.written

InvalidConfig(c) ==
    \/ c.radius_m <= 0
    \/ c.lat < -90 \/ c.lat > 90
    \/ c.lon < -180 \/ c.lon > 180

\* C4: an invalid configuration (radius_m <= 0, latitude or longitude out of
\* range) fails with InvalidConfig before any fetch is attempted and with no
\* partial result; a valid one never raises InvalidConfig.
C4_InvalidConfigRejected ==
    /\ InvalidConfig(cfg) =>
          /\ fetchCalls = 0
          /\ pc \in {"start", "done"}
          /\ pc = "done" => err.type = "InvalidConfig"
          /\ ~exported.written
    /\ ~InvalidConfig(cfg) => err.type # "InvalidConfig"

\* C5: the footprint source is called exactly once in every run, whatever it
\* answers; when it raises, the run ends at once with the download error
\* that carries the cause.
C5_FetchedOnceNoRetry ==
    /\ fetchCalls = IF pc = "start" THEN 0 ELSE 1
    /\ source.outcome = "raised" =>
          /\ pc = "done"
          /\ err = RuntimeError(M_download, source.cause)
          /\ source.cause \in Causes
          /\ ~exported.written

\* the source raised and the run is over
C5_Witness ==
    /\ source.outcome = "raised"
    /\ pc = "done"
    /\ fetchCalls = 1

MetricCrs == {"UTM", "EPSG:3857"}

\* C7: whenever the source returned, with or without a CRS, the normalizer
\* did not fail and every footprint is in one metric CRS: the UTM zone, or
\* Web Mercator when no UTM zone could be estimated.
C7_OneMetricCrs ==
    source.outcome = "returned" =>
        /\ err.msg # M_download
        /\ gdf.crs = IF source.utmOK THEN "UTM" ELSE "EPSG:3857"
        /\ gdf.crs \in MetricCrs
        /\ \A k \in 1..Len(gdf.rows) : gdf.rows[k].crs = gdf.crs

\* footprints fetched with no CRS and no UTM zone, now in Web Mercator
C7_Witness ==
    /\ source.outcome = "returned"
    /\ source.crs = "None"
    /\ ~source.utmOK
    /\ Len(gdf.rows) >= 2
    /\ \A k \in 1..Len(gdf.rows) : gdf.rows[k].crs = "EPSG:3857"

----------------------------------------------------------------------------
(* Properties of the classifier, checked under SpecClassify *)

\* C8: the classification result is never null and its height is at least
\* 3.0: _footprint_height returns a number >= 3.0 and _footprint_color an
\* RGBA quadruple, for every attribute mapping.
C8_HeightAtLeastMinimum ==
    /\ cpc \in {"height", "done"} =>
          /\ height_m.t = "float"
          /\ height_m.v >= MIN_HEIGHT_M
    /\ cpc = "done" =>
          /\ Len(color) = 4
          /\ \A k \in 1..4 : color[k] \in 0..255

\* text without the blanks around it and without a trailing unit marker
RECURSIVE StripUnit(_)
StripUnit(s) ==
    LET u == strip(s)
    IN  IF u # <<>> /\ u[Len(u)] = "m"
        THEN StripUnit(SubSeq(u, 1, Len(u) - 1))
        ELSE u

\* the number a value stands for, a trailing unit marker allowed or not;
\* None when it stands for none (not-a-number is no number)
ReadNumber(x, unit) ==
    IF x.t = "float" THEN x
    ELSE IF x.t = "str"
         THEN LET f == float_text(IF unit THEN StripUnit(x.s) ELSE x.s)
              IN  IF f.t = "float" THEN f ELSE PyNone
    ELSE PyNone

\* the number of the first key, in order, that is present and stands for one
RECURSIVE FirstNumber(_, _, _)
FirstNumber(a, keys, unit) ==
    IF keys = <<>> THEN PyNone
    ELSE LET n == IF Head(keys) \in DOMAIN a
                  THEN ReadNumber(a[Head(keys)], unit) ELSE PyNone
         IN  IF n # PyNone THEN n ELSE FirstNumber(a, Tail(keys), unit)

HeightKeys == <<"height", "building:height">>
LevelKeys == <<"building:levels", "levels">>

\* C9: when height (consulted first) or building:height is present and
\* parses as a number after stripping a trailing unit marker,
\* _footprint_height returns that value, whatever the levels attributes are.
C9_HeightTagReturned ==
    cpc \in {"height", "done"} =>
        LET n == FirstNumber(attrs, HeightKeys, TRUE)
        IN  n # PyNone => height_m = n

\* no height attribute yields a number, neither as the sentence above reads
\* it nor as the first loop of _footprint_height does
NoHeightNumber ==
    /\ FirstNumber(attrs, HeightKeys, TRUE) = PyNone
    /\ ScanHeight(attrs, HeightKeys).t # "float"

\* C10: when no height attribute yields a number, and building:levels
\* (consulted first) or levels is present and parses as a number, the result
\* is max(levels x 3.2, 3.0); when no relevant attribute yields a number it
\* is 3.0.
C10_LevelsThenMinimum ==
    (cpc \in {"height", "done"} /\ NoHeightNumber) =>
        LET l == FirstNumber(attrs, LevelKeys, FALSE)
        IN  height_m =
                IF l # PyNone
                THEN PyNum(IF (l.v * 32) \div 10 > 300 THEN (l.v * 32) \div 10
                           ELSE 300)
                ELSE PyNum(300)

\* the number the parse of _footprint_height finds in the value of a key,
\* None when it finds none (not-a-number is no number)
ParsedNumber(key, x) ==
    LET f == IF key \in {"height", "building:height"}
             THEN float_text(strip(replace(py_str(x), "m")))
             ELSE py_float(x)
    IN  IF x.t \in {"str", "float"} /\ f.t = "float" THEN f ELSE PyNone

HeightTags == {"height", "building:height", "building:levels", "levels"}

\* the mapping without the height and levels attributes that hold no number
UsableAttrs(a) ==
    LET keep == {k \in DOMAIN a :
                    k \in HeightTags => ParsedNumber(k, a[k]) # PyNone}
    IN  [k \in keep |-> a[k]]

\* C11: an attribute value that does not parse as a number (unparsable text,
\* empty text, None, the text "NaN", the not-a-number marker of an absent
\* tag) is treated as absent: _footprint_height returns what it returns for
\* the mapping without that attribute, so no usable height and
\* building:levels "4" give 12.8.
C11_NonNumberIsAbsent ==
    cpc \in {"height", "done"} =>
        /\ height_m = _footprint_height(UsableAttrs(attrs))
        /\ (/\ FirstNumber(attrs, HeightKeys, TRUE) = PyNone
            /\ "building:levels" \in DOMAIN attrs
            /\ attrs["building:levels"] = PyStr(<<"4">>))
           => height_m = PyNum(1280)

ColorKeys == <<"building:use", "landuse", "building">>

\* the positions, in priority order, of the color tags whose value matches
\* the palette or a synonym
MatchingTags ==
    {k \in 1..Len(ColorKeys) :
        /\ ColorKeys[k] \in DOMAIN attrs
        /\ ColorOfValue(attrs[ColorKeys[k]]) # NoColor}

PaletteNames ==
    {W_residential, W_commercial, W_industrial, W_retail, W_office,
     W_education, W_hospital, W_public}

\* the documented category of a tag value, compared without regard to letter
\* case; <<>> when it has none
CategoryOf(x) ==
    IF x.t # "str" THEN <<>>
    ELSE LET val == lower(x.s)
         IN  CASE val \in PaletteNames -> val
               [] val \in {W_apartments, W_house} -> W_residential
               [] val \in {W_shop, W_mall} -> W_retail
               [] val = W_hotel -> W_commercial
               [] val = W_warehouse -> W_industrial
               [] val \in {W_school, W_university, W_college} -> W_education
               [] val = W_clinic -> W_hospital
               [] OTHER -> <<>>

\* the positions, in priority order, of the color tags whose value has a
\* documented category
CategoryTags ==
    {k \in 1..Len(ColorKeys) :
        /\ ColorKeys[k] \in DOMAIN attrs
        /\ CategoryOf(attrs[ColorKeys[k]]) # <<>>}

\* C13: _footprint_color returns the palette color of the documented
\* category of the first tag that has one (a palette name gives its own
\* color, a synonym the color of its category, letter case disregarded), and
\* the default gray when no tag has one or there are no attributes.
C13_DocumentedCategoryColor ==
    cpc = "done" =>
        IF CategoryTags = {} THEN color = <<200, 200, 200, 255>>
        ELSE LET first == CHOOSE k \in CategoryTags :
                              \A j \in CategoryTags : k <= j
             IN  color = COLOR_MAP(CategoryOf(attrs[ColorKeys[first]]))

----------------------------------------------------------------------------
(* Further properties of the pipeline, checked under Spec *)

\* the message tells the caller to make the radius larger
SuggestsWiderRadius(msg) ==
    \E j \in 1..Len(msg) :
        /\ msg[j] = "aumentar"
        /\ \E k \in (j + 1)..Len(msg) : msg[k] \in {"radio", "radio."}

\* C15: when the run ended with zero meshes added, the error raised to the
\* caller carries a message that suggests widening the search radius, both
\* when the fetched set was empty and when every polygon was rejected.
C15_EmptyResultSuggestsRadius ==
    (pc = "done" /\ source.outcome = "returned" /\ count = 0) =>
        /\ err.type = "RuntimeError"
        /\ SuggestsWiderRadius(err.msg)

\* C18: every mesh added to the scene is extruded by max(height, 3.0),
\* height being the value classified for its footprint: what extrude_polygon
\* was asked for, and what the mesh in the scene has, is a number that is
\* at least 3.0, also when the height tag holds a smaller or negative number.
C18_ExtrusionAtLeastMinimum ==
    /\ \A k \in 1..Len(scene) :
          /\ scene[k].height.t = "float"
          /\ scene[k].height.v >= MIN_HEIGHT_M
    /\ \A k \in 1..Len(attempts) :
          attempts[k].added =>
              \A c \in 1..Len(attempts[k].calls) :
                  LET asked == attempts[k].calls[c].height
                      h == attempts[k].height
                  IN  /\ asked.t = "float"
                      /\ h.t = "float"
                      /\ asked.v = IF h.v > MIN_HEIGHT_M THEN h.v
                                   ELSE MIN_HEIGHT_M

\* the polygons the loop has handled when it is about to handle row
Handled ==
    IF pc = "loop" \/ (pc = "done" /\ row >= 1)
    THEN PartsOf(SubSeq(gdf.rows, 1, row - 1))
    ELSE <<>>

\* C19: when the first extrusion of a polygon fails, extrude_polygon is
\* called exactly once more, on the same polygon buffered by 0.05; when that
\* fails too the polygon is given up, alone: it is not in the scene and the
\* loop goes on to the next polygon.  No polygon is extruded more than twice.
C19_RetryOnceThenGiveUp ==
    /\ Len(attempts) = Len(Handled)
    /\ err.type # "Exception"
    /\ \A k \in 1..Len(attempts) :
          LET a == attempts[k]
              n == Len(a.calls)
          IN  /\ a.poly = Handled[k]
              /\ n <= 2
              /\ n >= 1 => a.calls[1].buffer = 0
              /\ n = 2 <=> (n >= 1 /\ a.calls[1].poly.extrude # "ok")
              /\ n = 2 =>
                    /\ a.calls[2].poly = a.calls[1].poly
                    /\ a.calls[2].buffer = BUFFER_RETRY
                    /\ a.calls[2].poly.extrude = "fail" =>
                          ~a.added /\ a.exc = "Exception: extrude_polygon"
                    /\ (a.calls[2].poly.extrude = "retry" /\ a.poly.paint)
                          => a.added

\* both extrusions of a polygon failed, and the polygon after it is in the
\* scene
C19_Witness ==
    \E k \in 1..(Len(attempts) - 1) :
        /\ Len(attempts[k].calls) = 2
        /\ ~attempts[k].added
        /\ attempts[k + 1].added
        /\ Len(scene) >= 1

\* C20: an invalid polygon is repaired by buffer(0) and, if that yields a
\* multi-polygon, only its largest part goes on; a polygon the repair cannot
\* make a polygon of, or whose area is <= 1e-12, is rejected and never
\* extruded; a valid polygon with area > 1e-12 is handed to extrude_polygon
\* unchanged.  No polygon handed to extrude_polygon is invalid or that small.
C20_RepairThenRejectOrExtrude ==
    \A k \in 1..Len(attempts) :
        LET a == attempts[k]
            p == a.poly
            fixable == p.fixType \in {"Polygon", "MultiPolygon"}
            largest == CHOOSE x \in {p.fixAreas[j] : j \in 1..Len(p.fixAreas)} :
                           \A j \in 1..Len(p.fixAreas) : p.fixAreas[j] <= x
            goes == IF p.valid THEN p.area > AREA_EPS
                    ELSE fixable /\ largest > AREA_EPS
        IN  /\ \A c \in 1..Len(a.calls) :
                  a.calls[c].poly.valid /\ a.calls[c].poly.area > AREA_EPS
            /\ ~goes => (a.calls = NoCalls /\ ~a.added)
            /\ goes =>
                  /\ a.calls # NoCalls
                  /\ a.calls[1].buffer = 0
                  /\ IF p.valid THEN a.calls[1].poly = p
                     ELSE a.calls[1].poly =
                              [p EXCEPT !.valid = TRUE, !.area = largest]

\* a bow-tie repaired to its larger half and extruded, and a rejected polygon
C20_Witness ==
    /\ \E k \in 1..Len(attempts) :
          /\ ~attempts[k].poly.valid
          /\ attempts[k].poly.fixType = "MultiPolygon"
          /\ attempts[k].poly.fixAreas = <<2, 3>>
          /\ attempts[k].added
          /\ attempts[k].calls[1].poly.area = 3
    /\ \E k \in 1..Len(attempts) :
          /\ attempts[k].calls = NoCalls
          /\ attempts[k].exc # ""

\* the attempts that ended with a mesh added
AddedAttempts == SelectSeq(attempts, LAMBDA a : a.added)

\* C21: at every point of the assembly loop the running count equals the
\* number of meshes in the scene: one mesh and one increment for each polygon
\* whose extrusion and coloring succeeded, in the order handled, and neither
\* for a skipped polygon.
C21_CountIsSceneSize ==
    LET added == AddedAttempts
    IN  /\ count = Len(scene)
        /\ count = Len(added)
        /\ swallowed = Len(attempts) - Len(added)
        /\ \A k \in 1..Len(scene) :
              /\ scene[k].paint
              /\ scene[k].color # NoColor
              /\ added[k].calls # NoCalls
              /\ scene[k].height = added[k].calls[1].height
              /\ scene[k].area = added[k].calls[1].poly.area

\* in the middle of the loop, with a mesh added and a polygon skipped
C21_Witness ==
    /\ pc = "loop"
    /\ row <= Len(gdf.rows)
    /\ count >= 1
    /\ Len(scene) = count
    /\ swallowed >= 1

\* the constituent polygons of the fetched footprints, in order, each with
\* the number and the attributes of the feature it belongs to
RECURSIVE OriginParts(_, _)
OriginParts(fs, n) ==
    IF n > Len(fs) THEN <<>>
    ELSE LET f == fs[n]
         IN  (IF f.geometry.type \in {"Polygon", "MultiPolygon"}
              THEN [k \in 1..Len(f.geometry.parts) |->
                       [feature |-> n, poly |-> f.geometry.parts[k],
                        attrs |-> f.attrs]]
              ELSE <<>>)
             \o OriginParts(fs, n + 1)

Origins == OriginParts(source.features, 1)

\* the positions in attempts of the polygons that gave the meshes of the scene
AddedIndex ==
    SelectSeq([k \in 1..Len(attempts) |-> k], LAMBDA k : attempts[k].added)

\* C22: with merge_multipolygons set, every part of a multi-part footprint
\* is a record of its own carrying the attributes of the footprint, so each
\* mesh built from a part has the height and the color classified from the
\* attributes of the footprint the part belongs to.
C22_PartsCarryFootprintAttributes ==
    (cfg.merge_multipolygons /\ source.outcome = "returned") =>
        LET orig == Origins
            idx == AddedIndex
        IN  /\ Len(gdf.rows) = Len(orig)
            /\ \A k \in 1..Len(gdf.rows) :
                  /\ gdf.rows[k].geometry.type = "Polygon"
                  /\ gdf.rows[k].attrs = orig[k].attrs
                  /\ gdf.rows[k].geometry.parts =
                        <<IF cfg.simplify THEN simplify(orig[k].poly)
                          ELSE orig[k].poly>>
            /\ \A k \in 1..Len(attempts) :
                  /\ attempts[k].poly = gdf.rows[k].geometry.parts[1]
                  /\ attempts[k].height = _footprint_height(orig[k].attrs)
            /\ Len(idx) = Len(scene)
            /\ \A m \in 1..Len(scene) :
                  /\ scene[m].color = _footprint_color(orig[idx[m]].attrs)
                  /\ scene[m].height =
                        py_max(_footprint_height(orig[idx[m]].attrs),
                               PyNum(MIN_HEIGHT_M))

\* two meshes built from two parts of one tagged multi-part footprint
C22_Witness ==
    /\ cfg.merge_multipolygons
    /\ pc = "done"
    /\ exported.written
    /\ \E m \in 1..Len(scene) - 1 :
          /\ Origins[AddedIndex[m]].feature = Origins[AddedIndex[m + 1]].feature
          /\ Origins[AddedIndex[m]].attrs = A_lev
          /\ scene[m].color = COLOR_MAP(W_industrial)
          /\ scene[m + 1].color = COLOR_MAP(W_industrial)

\* the fetched features that are footprints
IsFootprint(f) == f.geometry.type \in {"Polygon", "MultiPolygon"}
Footprints == SelectSeq(source.features, IsFootprint)

\* C23: fetched features that are neither polygons nor multi-polygons are
\* dropped without a trace: the frame is the one the same fetch gives without
\* them, none of them is handed to the extruder or raises an error, and the
\* run fails for lack of buildings exactly when no footprint was fetched.
C23_NonPolygonsDropped ==
    source.outcome = "returned" =>
        LET orig == Origins
        IN  /\ gdf = fetch_buildings_gdf(cfg, RawFrame(source.crs, Footprints),
                                         source.utmOK)
            /\ \A k \in 1..Len(gdf.rows) : IsFootprint(gdf.rows[k])
            /\ Len(attempts) <= Len(orig)
            /\ \A k \in 1..Len(attempts) :
                  attempts[k].poly \in {orig[k].poly, simplify(orig[k].poly)}
            /\ err.msg = M_nobuildings <=> (pc = "done" /\ Footprints = <<>>)
            /\ err.msg \in {NoError.msg, M_nobuildings, M_nomesh}

\* a fetch with a point feature and a footprint, exported with the mesh of
\* the footprint
C23_Witness ==
    /\ pc = "done"
    /\ exported.written
    /\ \E k \in 1..Len(source.features) : ~IsFootprint(source.features[k])
    /\ Footprints # <<>>
    /\ Len(scene) = Len(Origins)

\* C24: every polygon the loop rejected (repair failed, area at most 1e-12,
\* extrusion failed after the retry) was logged when it was skipped.
C24_RejectedPolygonsLogged ==
    \A k \in 1..Len(attempts) : ~attempts[k].added => attempts[k].logged

\* the classify-and-extrude steps of the frame: one per polygon, with the
\* height and the color of its row (lines 154 to 164)
RECURSIVE StepsOf(_)
StepsOf(rows) ==
    IF rows = <<>> THEN <<>>
    ELSE LET r == Head(rows)
             ps == PolysOf(r.geometry)
         IN  [k \in 1..Len(ps) |->
                 [poly |-> ps[k], height |-> _footprint_height(r.attrs),
                  rgba |-> _footprint_color(r.attrs)]]
             \o StepsOf(Tail(rows))

\* the scene and the count after the steps are taken in the order given
RECURSIVE RunSteps(_, _, _)
RunSteps(steps, sc, cnt) ==
    IF steps = <<>> THEN [scene |-> sc, count |-> cnt]
    ELSE LET res == ProcessPolys(<<Head(steps).poly>>, Head(steps).height,
                                 Head(steps).rgba, sc, cnt, 0, <<>>)
         IN  RunSteps(Tail(steps), res.scene, res.count)

Occurrences(seq, x) == Cardinality({k \in DOMAIN seq : seq[k] = x})

SameMeshes(s1, s2) ==
    /\ Len(s1) = Len(s2)
    /\ \A k \in DOMAIN s1 : Occurrences(s1, s1[k]) = Occurrences(s2, s1[k])

\* the steps with those at positions j and j + 1 exchanged
SwapSteps(steps, j) ==
    [k \in DOMAIN steps |->
        IF k = j THEN steps[j + 1] ELSE IF k = j + 1 THEN steps[j]
        ELSE steps[k]]

ReverseSteps(steps) == [k \in DOMAIN steps |-> steps[Len(steps) + 1 - k]]

\* the mesh a step gives when it runs alone on an empty scene
AloneMeshes(step) == RunSteps(<<step>>, <<>>, 0).scene

RECURSIVE EachAlone(_)
EachAlone(steps) ==
    IF steps = <<>> THEN <<>>
    ELSE AloneMeshes(Head(steps)) \o EachAlone(Tail(steps))

OtherMergeFrame ==
    fetch_buildings_gdf([cfg EXCEPT !.merge_multipolygons = ~@],
                        RawFrame(source.crs, source.features), source.utmOK)

ColorsOf(meshes) == [k \in DOMAIN meshes |-> meshes[k].color]

\* C26: with simplify off, the meshes of a run do not depend on
\* merge_multipolygons: when the loop has ended, their number and their
\* colors are those the loop gives on the frame fetched with the flag set the
\* other way, and the run fails for lack of meshes in both or in neither.
C26_MergeFlagImmaterial ==
    (source.outcome = "returned" /\ ~cfg.simplify /\ pc = "done"
        /\ row > Len(gdf.rows) /\ gdf.rows # <<>>) =>
        LET other == RunSteps(StepsOf(OtherMergeFrame.rows), <<>>, 0)
        IN  /\ count = other.count
            /\ ColorsOf(scene) = ColorsOf(other.scene)
            /\ scene = other.scene
            /\ (err.msg = M_nomesh) => other.count = 0

\* a multi-polygon split by the loop itself into two meshes
C26_Witness ==
    /\ ~cfg.simplify
    /\ ~cfg.merge_multipolygons
    /\ pc = "done"
    /\ exported.written
    /\ \E k \in 1..Len(gdf.rows) :
          /\ gdf.rows[k].geometry.type = "MultiPolygon"
          /\ Len(gdf.rows[k].geometry.parts) = 2
    /\ Len(scene) = Len(Origins)
    /\ Len(OtherMergeFrame.rows) > Len(gdf.rows)

----------------------------------------------------------------------------
(* Properties of the climate functions, checked under SpecBioclima *)

\* C16: alturas_conceptuales returns heights normalized in [0, 100]: for
\* every series of tmax, viento and optional radiacion, each returned value
\* is a number >= 0 and <= 100.
C16_AlturasWithin0And100 ==
    (bpc = "done" /\ alturas # <<>>) =>
        \A j \in 1..Len(alturas) :
            /\ alturas[j].t = "float"
            /\ alturas[j].n >= 0
            /\ alturas[j].n <= 100 * alturas[j].d

\* the cell of line j of the file under the column named key, <<>> if none
CellUnder(f, j, key) ==
    LET d == RowDict(f.fieldnames, f.lines[j])
    IN  IF key \in DOMAIN d THEN d[key] ELSE <<>>

\* the file has a mes column that numbers its lines 1 to 12, once each
HasMonths(f) ==
    /\ Len(f.lines) = NumMonths
    /\ \A m \in 1..NumMonths :
          \E j \in 1..Len(f.lines) :
              float_text(CellUnder(f, j, W_mes)) = PyNum(100 * m)

\* the line of month m
LineOfMonth(f, m) ==
    CHOOSE j \in 1..Len(f.lines) :
        float_text(CellUnder(f, j, W_mes)) = PyNum(100 * m)

\* C17: leer_csv does not require a mes column (a file of 12 full lines
\* without one is read), and when the file has one the returned tmax, tmin
\* and viento hold the values of months 1 to 12 in month order, whatever the
\* order of the lines in the file.
C17_RowsOrderedByMonth ==
    /\ (bpc \in {"clima", "done"} /\ csv # NoFile /\ Len(csv.lines) = NumMonths)
          => "tmax" \in DOMAIN clima
    /\ (bpc \in {"clima", "done"} /\ csv # NoFile /\ HasMonths(csv)) =>
          \A m \in 1..NumMonths :
              LET j == LineOfMonth(csv, m)
              IN  /\ clima.tmax[m] \in
                        {float_text(CellUnder(csv, j, k)) :
                            k \in {W_tmax, W_temp_max, W_tempmax}}
                  /\ clima.tmin[m] \in
                        {float_text(CellUnder(csv, j, k)) :
                            k \in {W_tmin, W_temp_min, W_tempmin}}
                  /\ clima.viento[m] \in
                        {float_text(CellUnder(csv, j, k)) :
                            k \in {W_viento, W_wind, W_vel_viento,
                                   W_wind_speed}}

====
